---- MODULE Spec2Model ----
(***************************************************************************)
(* Model of monitor_agent.py: the two FastStream handlers                  *)
(* handle_stock_message and handle_news_message, the module-level          *)
(* agent_state dictionary they share, and the helper                       *)
(* analyze_news_sentiment.  Handlers are asyncio coroutines: the code      *)
(* between two awaits runs as one step, and the only awaits are the two    *)
(* chain.ainvoke calls.                                                    *)
(*                                                                         *)
(* Prices are Python floats.  A price is carried in the state as its       *)
(* number of cents c and stands for the double nearest to c/100; the       *)
(* percentage change is computed on doubles, operation by operation, with  *)
(* IEEE-754 round-to-nearest-even.                                         *)
(***************************************************************************)
EXTENDS Integers, Sequences, FiniteSets, Bags, TLC

(***************************************************************************)
(* Unsigned big integers as sequences of limbs in base LimbBase, least     *)
(* significant limb first, without high zero limbs; <<>> is 0.  They carry *)
(* the 53-bit significands of doubles and the exact intermediate results   *)
(* of the float operations before rounding.                                *)
(***************************************************************************)
LimbBits == 13
LimbBase == 2 ^ LimbBits

RECURSIVE NatToLimbs(_)
NatToLimbs(n) ==
    IF n = 0 THEN <<>> ELSE <<n % LimbBase>> \o NatToLimbs(n \div LimbBase)

RECURSIVE LTrim(_)
LTrim(a) ==
    IF a = <<>> THEN <<>>
    ELSE IF a[Len(a)] # 0 THEN a
    ELSE LTrim(SubSeq(a, 1, Len(a) - 1))

Limb(a, i) == IF i >= 1 /\ i <= Len(a) THEN a[i] ELSE 0

RECURSIVE SmallBitLen(_)
SmallBitLen(n) == IF n = 0 THEN 0 ELSE 1 + SmallBitLen(n \div 2)

\* number of significant bits of a
LBitLen(a) ==
    IF a = <<>> THEN 0 ELSE (Len(a) - 1) * LimbBits + SmallBitLen(a[Len(a)])

RECURSIVE LCmpFrom(_, _, _)
LCmpFrom(a, b, i) ==
    IF i = 0 THEN 0
    ELSE IF a[i] > b[i] THEN 1
    ELSE IF a[i] < b[i] THEN -1
    ELSE LCmpFrom(a, b, i - 1)

LCmp(a, b) ==
    IF Len(a) > Len(b) THEN 1
    ELSE IF Len(a) < Len(b) THEN -1
    ELSE LCmpFrom(a, b, Len(a))

RECURSIVE LAddFrom(_, _, _, _)
LAddFrom(a, b, i, carry) ==
    IF i > Len(a) /\ i > Len(b)
    THEN IF carry = 0 THEN <<>> ELSE <<carry>>
    ELSE LET s == Limb(a, i) + Limb(b, i) + carry
         IN  <<s % LimbBase>> \o LAddFrom(a, b, i + 1, s \div LimbBase)

LAdd(a, b) == LAddFrom(a, b, 1, 0)

\* a - b, for a >= b
RECURSIVE LSubFrom(_, _, _, _)
LSubFrom(a, b, i, borrow) ==
    IF i > Len(a) THEN <<>>
    ELSE LET d == Limb(a, i) - Limb(b, i) - borrow
         IN  <<d % LimbBase>> \o LSubFrom(a, b, i + 1, IF d < 0 THEN 1 ELSE 0)

LSub(a, b) == LTrim(LSubFrom(a, b, 1, 0))

\* a * s, for 0 <= s <= LimbBase
RECURSIVE LMulSmallFrom(_, _, _, _)
LMulSmallFrom(a, s, i, carry) ==
    IF i > Len(a)
    THEN IF carry = 0 THEN <<>> ELSE <<carry>>
    ELSE LET p == a[i] * s + carry
         IN  <<p % LimbBase>> \o LMulSmallFrom(a, s, i + 1, p \div LimbBase)

LMulSmall(a, s) == LTrim(LMulSmallFrom(a, s, 1, 0))

RECURSIVE LMul(_, _)
LMul(a, b) ==
    IF b = <<>> \/ a = <<>> THEN <<>>
    ELSE LET rest == LMul(a, Tail(b))
         IN  LAdd(LMulSmall(a, Head(b)),
                  IF rest = <<>> THEN <<>> ELSE <<0>> \o rest)

\* a * 2^k
LShl(a, k) ==
    IF a = <<>> THEN <<>>
    ELSE [i \in 1..(k \div LimbBits) |-> 0] \o LMulSmall(a, 2 ^ (k % LimbBits))

\* quotient limbs 1..i of a \div s, for 0 < s <= LimbBase
RECURSIVE LDivSmallFrom(_, _, _, _)
LDivSmallFrom(a, s, i, rem) ==
    IF i = 0 THEN <<>>
    ELSE LET cur == rem * LimbBase + a[i]
         IN  LDivSmallFrom(a, s, i - 1, cur % s) \o <<cur \div s>>

\* a \div 2^k
LShr(a, k) ==
    LET q == k \div LimbBits
        hi == IF q >= Len(a) THEN <<>> ELSE SubSeq(a, q + 1, Len(a))
    IN  LTrim(LDivSmallFrom(hi, 2 ^ (k % LimbBits), Len(hi), 0))

\* Long division's quotient digit: the greatest q with q * d <= r, for
\* r < d * LimbBase and d with its top limb at least LimbBase / 2.  The
\* estimate from the two top limbs of r is at most 2 too large.
QDigit(r, d) ==
    LET n    == Len(d)
        top  == Limb(r, n + 1) * LimbBase + Limb(r, n)
        est  == top \div d[n]
        qhat == IF est > LimbBase - 1 THEN LimbBase - 1 ELSE est
    IN  IF LCmp(LMulSmall(d, qhat), r) <= 0 THEN qhat
        ELSE IF LCmp(LMulSmall(d, qhat - 1), r) <= 0 THEN qhat - 1
        ELSE qhat - 2

RECURSIVE LDivFrom(_, _, _, _, _)
LDivFrom(n, d, i, r, q) ==
    IF i = 0 THEN [quot |-> LTrim(q), rem |-> r]
    ELSE LET r2 == LTrim(<<n[i]>> \o r)
             qd == QDigit(r2, d)
         IN  LDivFrom(n, d, i - 1, LSub(r2, LMulSmall(d, qd)), <<qd>> \o q)

\* quotient of n by d and whether the division is exact, for d > 0; both
\* are scaled first so that the top limb of d has its high bit set
LDivMod(n, d) ==
    LET s  == LimbBits - SmallBitLen(d[Len(d)])
        qr == LDivFrom(LShl(n, s), LShl(d, s), Len(LShl(n, s)), <<>>, <<>>)
    IN  [quot |-> qr.quot, exact |-> qr.rem = <<>>]

(***************************************************************************)
(* Doubles: sign, 53-bit significand man (or <<>> for zero) and exponent   *)
(* exp, standing for (-1)^sign * man * 2^exp.  FRound is the rounding      *)
(* every float operation ends with: to nearest, ties to even.  The prices  *)
(* and percentages of the model stay far from the subnormal and overflow   *)
(* ranges, which are not modelled.                                         *)
(***************************************************************************)
MantBits == 53

FZero == [sign |-> 0, man |-> <<>>, exp |-> 0]

\* the double nearest to (-1)^sign * (m + f) * 2^e, where 0 < f < 1 if
\* sticky and f = 0 otherwise (sticky only with more than MantBits + 1 bits)
FRound(sign, m, e, sticky) ==
    IF m = <<>> THEN FZero
    ELSE IF LBitLen(m) <= MantBits
    THEN [sign |-> sign, man |-> LShl(m, MantBits - LBitLen(m)),
          exp |-> e - (MantBits - LBitLen(m))]
    ELSE LET drop == LBitLen(m) - MantBits
             kept == LShr(m, drop)
             rem  == LSub(m, LShl(kept, drop))
             c    == LCmp(rem, LShl(<<1>>, drop - 1))
             up   == c > 0 \/ (c = 0 /\ (sticky \/ kept[1] % 2 = 1))
             k2   == IF up THEN LAdd(kept, <<1>>) ELSE kept
         IN  IF LBitLen(k2) > MantBits
             THEN [sign |-> sign, man |-> LShr(k2, 1), exp |-> e + drop + 1]
             ELSE [sign |-> sign, man |-> k2, exp |-> e + drop]

FromInt(n) ==
    FRound(IF n < 0 THEN 1 ELSE 0, NatToLimbs(IF n < 0 THEN -n ELSE n), 0, FALSE)

FNeg(x) == IF x.man = <<>> THEN x ELSE [x EXCEPT !.sign = 1 - x.sign]

FAbs(x) == [x EXCEPT !.sign = 0]

FAdd(x, y) ==
    IF x.man = <<>> THEN y
    ELSE IF y.man = <<>> THEN x
    ELSE LET e  == IF x.exp < y.exp THEN x.exp ELSE y.exp
             mx == LShl(x.man, x.exp - e)
             my == LShl(y.man, y.exp - e)
         IN  IF x.sign = y.sign
             THEN FRound(x.sign, LAdd(mx, my), e, FALSE)
             ELSE IF LCmp(mx, my) >= 0
             THEN FRound(x.sign, LSub(mx, my), e, FALSE)
             ELSE FRound(y.sign, LSub(my, mx), e, FALSE)

FSub(x, y) == FAdd(x, FNeg(y))

FMul(x, y) ==
    FRound((x.sign + y.sign) % 2, LMul(x.man, y.man), x.exp + y.exp, FALSE)

DivExtraBits == 56

FDiv(x, y) ==
    IF x.man = <<>> THEN FZero
    ELSE LET qr == LDivMod(LShl(x.man, DivExtraBits), y.man)
         IN  FRound((x.sign + y.sign) % 2, qr.quot,
                    x.exp - y.exp - DivExtraBits, ~qr.exact)

\* x >= y for doubles x >= 0 and y > 0 (both significands have MantBits bits)
FGe(x, y) ==
    /\ x.man # <<>>
    /\ \/ x.exp > y.exp
       \/ x.exp = y.exp /\ LCmp(x.man, y.man) >= 0

\* x > 0 for a double
FPositive(x) == x.man # <<>> /\ x.sign = 0

(***************************************************************************)
(* Bounds of the model and the inputs the handlers are driven with.        *)
(***************************************************************************)
\* steps of the environment in one behaviour: messages delivered to the
\* handlers and advances of the wall clock
MaxSteps == 4

\* seconds the wall clock may advance by between two steps
ClockSteps == {599, 600, 601}

\* StockMessage.ticker; "" is the invalid one
TickerInputs == {"", "NVDA", "AAPL"}

\* StockMessage.price in cents (the producer publishes round(price, 2)):
\* the double the handler receives is the one nearest to cents / 100
ValidPrices == {9600, 10000, 10080, 10499, 10500}
PriceInputs == ValidPrices \cup {0, -100}

\* NewsMessage.headline; "" is the invalid one
HeadlineInputs == {"", "NVIDIA announces new chip"}
\* NewsMessage.source
SourceInputs == {"Reuters"}
\* NewsMessage.timestamp
TimestampInputs == {1, 2}

\* the watched ticker gets every price, the other tickers a few
StockMessages ==
    [ticker : {"NVDA"}, price : PriceInputs]
        \cup [ticker : {"AAPL"}, price : {0, 10000, 10500}]
        \cup [ticker : {""}, price : {-100, 10000}]
\* a headline about another company, from another source
OtherNews == [headline |-> "Apple unveils new iPhone", source |-> "Bloomberg",
              timestamp |-> 3]
NewsMessages ==
    [headline : HeadlineInputs, source : SourceInputs, timestamp : TimestampInputs]
        \cup {OtherNews}

\* response.content of the sentiment chain, as its whitespace-separated words
ResponseInputs ==
    { <<"POSITIVE">>, <<"Negative">>, <<"Neutral.">>, <<"Bullish">>, <<>>,
      <<"NEUTRAL", "POSITIVE">>, <<"Negative.", "NEUTRAL">> }

(***************************************************************************)
(* Module-level configuration and state of monitor_agent.py.               *)
(***************************************************************************)
MAX_NEWS_HISTORY == 3
PRICE_CHANGE_THRESHOLD_PERCENT == 5
ALERT_COOLDOWN_SECONDS == 60 * 10

\* Python's None, and a present value, for the optional fields
None == <<>>
Some(v) == <<v>>

VARIABLES
    agent_state,            \* dict ticker -> {last_price, recent_news_sentiments, last_alert_time}
    news_sentiment_chain,   \* TRUE iff the sentiment chain was built at import
    proactive_insight_chain,\* TRUE iff the insight chain was built at import
    clock,                  \* datetime.datetime.now(), in seconds
    awaiting_sentiment,     \* bag of news messages suspended in news_sentiment_chain.ainvoke
    awaiting_insight,       \* bag of contexts suspended in proactive_insight_chain.ainvoke
    alerts,                 \* the TRIGGER log: one entry per fired trigger
    last_sentiment,         \* the latest "Analyzed Sentiment" log entry, "" before the first
    n_valid,                \* news analysed as POSITIVE, NEGATIVE or NEUTRAL so far
    folded,                 \* the (timestamp, sentiment) entries of those news
    nevents,                \* messages delivered so far
    nticks,                 \* clock advances so far
    pair                    \* the two messages of a concurrent pair (SpecPair only)

vars == <<agent_state, news_sentiment_chain, proactive_insight_chain, clock,
          awaiting_sentiment, awaiting_insight, alerts, last_sentiment, n_valid,
          folded, nevents, nticks, pair>>

(***************************************************************************)
(* The doubles of the messages' prices and the percentage change of        *)
(* handle_stock_message, line 156, evaluated once for the price inputs.    *)
(***************************************************************************)
\* the float msg.price of a price published as cents / 100
PriceFloat(cents) == FDiv(FromInt(cents), FromInt(100))

PriceTable == { <<c, PriceFloat(c)>> : c \in PriceInputs }

Price(cents) == (CHOOSE e \in PriceTable : e[1] = cents)[2]

\* ((current_price - last_price) / last_price) * 100
PercentFloat(current_price, last_price) ==
    FMul(FDiv(FSub(Price(current_price), Price(last_price)), Price(last_price)),
         FromInt(100))

PercentTable ==
    { <<c, l, PercentFloat(c, l)>> : c \in PriceInputs, l \in ValidPrices }

price_change_percent(current_price, last_price) ==
    (CHOOSE e \in PercentTable : e[1] = current_price /\ e[2] = last_price)[3]

ThresholdFloat == FromInt(PRICE_CHANGE_THRESHOLD_PERCENT)

(***************************************************************************)
(* analyze_news_sentiment: the sentiment word extracted from the chain's   *)
(* response.                                                               *)
(***************************************************************************)
valid_sentiments == <<"POSITIVE", "NEGATIVE", "NEUTRAL">>

\* str.upper() on the words of the responses
Upper(w) ==
    CASE w = "Negative"  -> "NEGATIVE"
      [] w = "Negative." -> "NEGATIVE."
      [] w = "Neutral."  -> "NEUTRAL."
      [] w = "Bullish"   -> "BULLISH"
      [] OTHER           -> w

\* v in w, for a sentiment word v and an upper-cased response word w
IsSubstring(v, w) ==
    \/ w = v
    \/ v = "NEGATIVE" /\ w = "NEGATIVE."
    \/ v = "NEUTRAL" /\ w = "NEUTRAL."

\* the first entry of valid_sentiments that is in hits, else "UNKNOWN"
FirstValid(hits) ==
    IF \E i \in 1..Len(valid_sentiments) : valid_sentiments[i] \in hits
    THEN valid_sentiments[CHOOSE i \in 1..Len(valid_sentiments) :
            /\ valid_sentiments[i] \in hits
            /\ \A j \in 1..(i - 1) : valid_sentiments[j] \notin hits]
    ELSE "UNKNOWN"

\* lines 100-121: content is response.content as a sequence of words
ExtractSentiment(content) ==
    LET response_words == [i \in 1..Len(content) |-> Upper(content[i])]
        words == {response_words[i] : i \in 1..Len(response_words)}
        valid == {valid_sentiments[i] : i \in 1..Len(valid_sentiments)}
        contained == {v \in valid : \E w \in words : IsSubstring(v, w)}
        extracted_sentiment == FirstValid(words)
    IN  IF extracted_sentiment = "UNKNOWN"
        THEN FirstValid(contained)
        ELSE extracted_sentiment

\* what the awaited chain call ends with: a response or an exception
ChainOutcomes ==
    [ok : {TRUE}, content : ResponseInputs] \cup {[ok |-> FALSE, content |-> <<>>]}

\* lines 97-124, from the return of the await on
SentimentOf(outcome) ==
    IF outcome.ok THEN ExtractSentiment(outcome.content) ELSE "ERROR_API_CALL"

\* "ERROR" in sentiment, for the strings analyze_news_sentiment returns
ContainsERROR(sentiment) ==
    sentiment \in {"ERROR_LLM_UNAVAILABLE", "ERROR_API_CALL"}

(***************************************************************************)
(* The sentiment window of handle_news_message, lines 222-228.             *)
(***************************************************************************)
\* e placed after every entry whose timestamp is >= its own
RECURSIVE InsertDesc(_, _)
InsertDesc(s, e) ==
    IF s = <<>> THEN <<e>>
    ELSE IF Head(s)[1] >= e[1] THEN <<Head(s)>> \o InsertDesc(Tail(s), e)
    ELSE <<e>> \o s

\* list.sort(key=lambda item: item[0], reverse=True): stable, descending
RECURSIVE SortDesc(_)
SortDesc(s) ==
    IF s = <<>> THEN <<>>
    ELSE InsertDesc(SortDesc(SubSeq(s, 1, Len(s) - 1)), s[Len(s)])

\* sentiments[:n]
Prefix(s, n) == SubSeq(s, 1, IF Len(s) < n THEN Len(s) ELSE n)

\* UpdatedSentiments without the slice of line 228
UpdatedSentiments_Unbounded(sentiments, msg, sentiment) ==
    SortDesc(Append(sentiments, <<msg.timestamp, sentiment>>))

\* UpdatedSentiments with the slice one short
UpdatedSentiments_OneShort(sentiments, msg, sentiment) ==
    Prefix(SortDesc(Append(sentiments, <<msg.timestamp, sentiment>>)),
           MAX_NEWS_HISTORY - 1)

\* UpdatedSentiments without the sort of line 226
UpdatedSentiments_Unsorted(sentiments, msg, sentiment) ==
    Prefix(Append(sentiments, <<msg.timestamp, sentiment>>), MAX_NEWS_HISTORY)

\* UpdatedSentiments taking the order of arrival for the order of the news
UpdatedSentiments_ArrivalOrder(sentiments, msg, sentiment) ==
    Prefix(<<<<msg.timestamp, sentiment>>>> \o sentiments, MAX_NEWS_HISTORY)

UpdatedSentiments(sentiments, msg, sentiment) ==
    Prefix(SortDesc(Append(sentiments, <<msg.timestamp, sentiment>>)),
           MAX_NEWS_HISTORY)

\* NewsState without the test for UNKNOWN
NewsState_KeepsUnknown(state, msg, sentiment) ==
    IF "NVDA" \in DOMAIN state /\ ~ContainsERROR(sentiment)
    THEN [state EXCEPT !["NVDA"].recent_news_sentiments =
              UpdatedSentiments(@, msg, sentiment)]
    ELSE state

\* NewsState filing the news under the company its headline names
NewsState_RoutesByHeadline(state, msg, sentiment) ==
    LET ticker == IF msg.headline = "Apple unveils new iPhone" THEN "AAPL"
                  ELSE "NVDA"
    IN  IF ticker \in DOMAIN state /\ ~ContainsERROR(sentiment)
           /\ sentiment # "UNKNOWN"
        THEN [state EXCEPT ![ticker].recent_news_sentiments =
                  UpdatedSentiments(@, msg, sentiment)]
        ELSE state

\* NewsState letting good news reopen the cooldown gate
NewsState_ReopensGate(state, msg, sentiment) ==
    IF "NVDA" \in DOMAIN state /\ ~ContainsERROR(sentiment) /\ sentiment # "UNKNOWN"
    THEN [state EXCEPT !["NVDA"].recent_news_sentiments =
              UpdatedSentiments(@, msg, sentiment),
                       !["NVDA"].last_alert_time =
              IF sentiment = "POSITIVE" THEN None ELSE @]
    ELSE state

\* lines 221-228: the state after the news handler's update
NewsState(state, msg, sentiment) ==
    IF "NVDA" \in DOMAIN state /\ ~ContainsERROR(sentiment) /\ sentiment # "UNKNOWN"
    THEN [state EXCEPT !["NVDA"].recent_news_sentiments =
              UpdatedSentiments(@, msg, sentiment)]
    ELSE state

(***************************************************************************)
(* handle_stock_message, lines 132-175, as a function of the state, the    *)
(* message and the clock: the new state, whether the trigger fired and     *)
(* the context prepared for the insight chain.                             *)
(***************************************************************************)
\* ", ".join(sentiments_list)
RECURSIVE Join(_)
Join(l) ==
    IF l = <<>> THEN ""
    ELSE IF Len(l) = 1 THEN l[1]
    ELSE l[1] \o ", " \o Join(Tail(l))

NoContext == [ticker |-> "", current_price |-> 0, last_price |-> 0,
              recent_news_sentiment |-> "", news_count |-> 0]

\* InvalidStock without the price test
InvalidStock_TickerOnly(msg) == msg.ticker = ""

\* line 135
InvalidStock(msg) == msg.ticker = "" \/ ~FPositive(Price(msg.price))

\* NewRecord seeded like the record of line 75, without the price
NewRecord_Unpriced(price) ==
    [last_price |-> None, recent_news_sentiments |-> <<>>,
     last_alert_time |-> None]

\* NewRecord with the cooldown started by the creation of the record
NewRecord_Alerted(price) ==
    [last_price |-> Some(price), recent_news_sentiments |-> <<>>,
     last_alert_time |-> Some(0)]

\* lines 142-144: the record of a ticker seen for the first time
NewRecord(price) ==
    [last_price |-> Some(price), recent_news_sentiments |-> <<>>,
     last_alert_time |-> None]

\* line 155
HasPrevious(last_price) == last_price # None /\ FPositive(Price(last_price[1]))

\* TriggerCondition with >= for the cooldown
TriggerCondition_CooldownGe(percent, last_alert_time, now) ==
    /\ FGe(FAbs(percent), ThresholdFloat)
    /\ \/ last_alert_time = None
       \/ now - last_alert_time[1] >= ALERT_COOLDOWN_SECONDS

\* lines 163-168
TriggerCondition(percent, last_alert_time, now) ==
    /\ FGe(FAbs(percent), ThresholdFloat)
    /\ \/ last_alert_time = None
       \/ now - last_alert_time[1] > ALERT_COOLDOWN_SECONDS

\* FiredState without the write of line 170 before the await
FiredState_Unwritten(state, ticker, now) == state

\* FiredState writing the message-independent start of the clock instead of now
FiredState_Epoch(state, ticker, now) ==
    [state EXCEPT ![ticker].last_alert_time = Some(0)]

\* FiredState with one cooldown for the whole store
FiredState_AllTickers(state, ticker, now) ==
    [t \in DOMAIN state |-> [state[t] EXCEPT !.last_alert_time = Some(now)]]

\* line 170
FiredState(state, ticker, now) ==
    [state EXCEPT ![ticker].last_alert_time = Some(now)]

\* InsightContext listing the window oldest first
InsightContext_OldestFirst(state, ticker, current_price, last_price) ==
    LET n == Len(state[ticker].recent_news_sentiments)
        sentiments_list ==
            [i \in 1..n |-> state[ticker].recent_news_sentiments[n + 1 - i][2]]
    IN  [ticker |-> ticker,
         current_price |-> current_price,
         last_price |-> last_price,
         recent_news_sentiment |->
            IF sentiments_list # <<>> THEN Join(sentiments_list)
            ELSE "No recent news",
         news_count |-> Len(sentiments_list)]

\* lines 173-175 and 183-188: the context passed to the insight chain
InsightContext(state, ticker, current_price, last_price) ==
    LET sentiments_list ==
            [i \in 1..Len(state[ticker].recent_news_sentiments) |->
                state[ticker].recent_news_sentiments[i][2]]
    IN  [ticker |-> ticker,
         current_price |-> current_price,
         last_price |-> last_price,
         recent_news_sentiment |->
            IF sentiments_list # <<>> THEN Join(sentiments_list)
            ELSE "No recent news",
         news_count |-> Len(sentiments_list)]

\* StockResult recording the price only when it is the first or it fires
StockResult_LosesRefused(state, msg, now) ==
    LET ticker == msg.ticker
        same   == [state |-> state, fired |-> FALSE, context |-> NoContext]
    IN  IF InvalidStock(msg) THEN same
        ELSE IF ticker \notin DOMAIN state
        THEN [same EXCEPT !.state = state @@ (ticker :> NewRecord(msg.price))]
        ELSE LET last_price == state[ticker].last_price
                 priced     == [state EXCEPT ![ticker].last_price = Some(msg.price)]
             IN  IF ~HasPrevious(last_price)
                 THEN [same EXCEPT !.state = priced]
                 ELSE IF TriggerCondition(
                            price_change_percent(msg.price, last_price[1]),
                            state[ticker].last_alert_time, now)
                 THEN [state |-> FiredState(priced, ticker, now),
                       fired |-> TRUE,
                       context |-> InsightContext(priced, ticker, msg.price,
                                                  last_price[1])]
                 ELSE same

\* StockResult without the membership test of line 141: every valid message
\* installs a fresh record
StockResult_Reinitializes(state, msg, now) ==
    IF InvalidStock(msg)
    THEN [state |-> state, fired |-> FALSE, context |-> NoContext]
    ELSE [state |-> (msg.ticker :> NewRecord(msg.price)) @@ state,
          fired |-> FALSE, context |-> NoContext]

StockResult(state, msg, now) ==
    LET ticker == msg.ticker
        same   == [state |-> state, fired |-> FALSE, context |-> NoContext]
    IN  IF InvalidStock(msg) THEN same
        ELSE IF ticker \notin DOMAIN state
        THEN [same EXCEPT !.state = state @@ (ticker :> NewRecord(msg.price))]
        ELSE LET last_price == state[ticker].last_price
                 priced     == [state EXCEPT ![ticker].last_price = Some(msg.price)]
             IN  IF ~HasPrevious(last_price)
                 THEN [same EXCEPT !.state = priced]
                 ELSE IF TriggerCondition(
                            price_change_percent(msg.price, last_price[1]),
                            state[ticker].last_alert_time, now)
                 THEN [state |-> FiredState(priced, ticker, now),
                       fired |-> TRUE,
                       context |-> InsightContext(priced, ticker, msg.price,
                                                  last_price[1])]
                 ELSE [same EXCEPT !.state = priced]

(***************************************************************************)
(* Initial state: the module has been imported.  The try block of lines    *)
(* 36-68 builds the sentiment chain first and the insight chain second, so *)
(* the insight chain exists only if the sentiment chain does.              *)
(***************************************************************************)
InitialState ==
    "NVDA" :> [last_price |-> None, recent_news_sentiments |-> <<>>,
               last_alert_time |-> None]

NoPair == [active |-> FALSE, base |-> InitialState,
           news |-> [headline |-> "", source |-> "", timestamp |-> 0],
           stock |-> [ticker |-> "", price |-> 0],
           news_sent |-> FALSE, stock_sent |-> FALSE, overlap |-> FALSE]

Init ==
    /\ agent_state = InitialState
    /\ news_sentiment_chain \in BOOLEAN
    /\ proactive_insight_chain \in BOOLEAN
    /\ proactive_insight_chain => news_sentiment_chain
    /\ clock = 0
    /\ awaiting_sentiment = EmptyBag
    /\ awaiting_insight = EmptyBag
    /\ alerts = <<>>
    /\ last_sentiment = ""
    /\ n_valid = 0
    /\ folded = {}
    /\ nevents = 0
    /\ nticks = 0
    /\ pair = NoPair

\* the wall clock advances
Tick ==
    /\ nevents + nticks < MaxSteps
    /\ \E d \in ClockSteps : clock' = clock + d
    /\ nticks' = nticks + 1
    /\ UNCHANGED <<agent_state, news_sentiment_chain, proactive_insight_chain,
                   awaiting_sentiment, awaiting_insight, alerts, last_sentiment,
                   n_valid, folded, nevents, pair>>

\* handle_stock_message from its start to its await or its return
StockHandler(msg) ==
    LET r == StockResult(agent_state, msg, clock)
    IN  /\ agent_state' = r.state
        /\ alerts' = IF r.fired
                     THEN Append(alerts, [ticker |-> msg.ticker, time |-> clock,
                                          context |-> r.context])
                     ELSE alerts
        /\ awaiting_insight' = IF r.fired /\ proactive_insight_chain
                               THEN awaiting_insight (+) SetToBag({r.context})
                               ELSE awaiting_insight
        /\ UNCHANGED <<news_sentiment_chain, proactive_insight_chain, clock,
                       awaiting_sentiment, last_sentiment, n_valid, folded>>

\* a message of stock_feed is delivered
handle_stock_message ==
    /\ nevents + nticks < MaxSteps
    /\ \E msg \in StockMessages : StockHandler(msg)
    /\ nevents' = nevents + 1
    /\ UNCHANGED <<nticks, pair>>

\* InsightReturns reopening the cooldown gate when the insight call failed
InsightReturns_ReopensGate ==
    /\ \E context \in BagToSet(awaiting_insight), ok \in BOOLEAN :
          /\ awaiting_insight' = awaiting_insight (-) SetToBag({context})
          /\ agent_state' =
                IF ok THEN agent_state
                ELSE [agent_state EXCEPT ![context.ticker].last_alert_time = None]
    /\ UNCHANGED <<news_sentiment_chain, proactive_insight_chain,
                   clock, awaiting_sentiment, alerts, last_sentiment, n_valid,
                   folded, nevents, nticks, pair>>

\* proactive_insight_chain.ainvoke returns or raises: lines 190-193 only log
InsightReturns ==
    /\ \E context \in BagToSet(awaiting_insight), ok \in BOOLEAN :
          awaiting_insight' = awaiting_insight (-) SetToBag({context})
    /\ UNCHANGED <<agent_state, news_sentiment_chain, proactive_insight_chain,
                   clock, awaiting_sentiment, alerts, last_sentiment, n_valid,
                   folded, nevents, nticks, pair>>

\* line 218 on: the handler has its sentiment and updates the state
NewsUpdate(msg, sentiment) ==
    /\ agent_state' = NewsState(agent_state, msg, sentiment)
    /\ last_sentiment' = sentiment
    /\ n_valid' = IF sentiment \in {"POSITIVE", "NEGATIVE", "NEUTRAL"}
                  THEN n_valid + 1 ELSE n_valid
    /\ folded' = IF sentiment \in {"POSITIVE", "NEGATIVE", "NEUTRAL"}
                 THEN folded \cup {<<msg.timestamp, sentiment>>} ELSE folded

\* handle_news_message from its start to its await or its return
NewsHandler(msg) ==
    /\ IF msg.headline = ""
       THEN UNCHANGED <<agent_state, awaiting_sentiment, last_sentiment, n_valid,
                        folded>>
       ELSE IF ~news_sentiment_chain
       THEN /\ NewsUpdate(msg, "ERROR_LLM_UNAVAILABLE")
            /\ UNCHANGED awaiting_sentiment
       ELSE /\ awaiting_sentiment' = awaiting_sentiment (+) SetToBag({msg})
            /\ UNCHANGED <<agent_state, last_sentiment, n_valid, folded>>
    /\ UNCHANGED <<news_sentiment_chain, proactive_insight_chain, clock,
                   awaiting_insight, alerts>>

\* a message of news_feed is delivered
handle_news_message ==
    /\ nevents + nticks < MaxSteps
    /\ \E msg \in NewsMessages : NewsHandler(msg)
    /\ nevents' = nevents + 1
    /\ UNCHANGED <<nticks, pair>>

\* NewsResume writing back the record as it was when the pair was submitted
NewsResume_StaleRecord(msg, outcome) ==
    /\ agent_state' = [agent_state EXCEPT !["NVDA"] =
            NewsState(pair.base, msg, SentimentOf(outcome))["NVDA"]]
    /\ last_sentiment' = SentimentOf(outcome)
    /\ n_valid' = n_valid
    /\ folded' = folded
    /\ awaiting_sentiment' = awaiting_sentiment (-) SetToBag({msg})

\* handle_news_message from the return of the await on
NewsResume(msg, outcome) ==
    /\ NewsUpdate(msg, SentimentOf(outcome))
    /\ awaiting_sentiment' = awaiting_sentiment (-) SetToBag({msg})

\* news_sentiment_chain.ainvoke returns or raises
SentimentReturns ==
    /\ \E msg \in BagToSet(awaiting_sentiment), outcome \in ChainOutcomes :
          NewsResume(msg, outcome)
    /\ UNCHANGED <<news_sentiment_chain, proactive_insight_chain, clock,
                   awaiting_insight, alerts, nevents, nticks, pair>>

Next ==
    \/ Tick
    \/ handle_stock_message
    \/ InsightReturns
    \/ handle_news_message
    \/ SentimentReturns

Spec == Init /\ [][Next]_vars

(***************************************************************************)
(* SpecLive: Spec with the scheduling the broker and the event loop give:  *)
(* a message that can be delivered is delivered and the clock goes on.     *)
(* Nothing makes an awaited chain call end: lines 99 and 182 await ainvoke *)
(* with no timeout (no asyncio.wait_for, no timeout given to the model at  *)
(* lines 38-42), so SentimentReturns and InsightReturns are left to the    *)
(* service and carry no fairness.                                          *)
(***************************************************************************)
SpecLive ==
    /\ Init /\ [][Next]_vars
    /\ WF_vars(handle_stock_message)
    /\ WF_vars(handle_news_message)
    /\ WF_vars(Tick)

(***************************************************************************)
(* SpecPair: one news event and one price event for NVDA are submitted     *)
(* together to a store that already has a history, and their handlers      *)
(* interleave in every way the two awaits allow.                           *)
(***************************************************************************)
\* windows the store can hold when the pair arrives
PairWindows ==
    { <<>>,
      << <<2, "POSITIVE">> >>,
      << <<2, "POSITIVE">>, <<1, "NEGATIVE">>, <<1, "NEUTRAL">> >> }

\* the clock when the pair arrives; an earlier alert was fired at 0
PairClocks == {600, 601}

\* records of NVDA the store can hold when the pair arrives
PairRecords ==
    { r \in [last_price : {None} \cup {Some(p) : p \in ValidPrices},
             recent_news_sentiments : PairWindows,
             last_alert_time : {None, Some(0)}] :
        r.last_alert_time # None => r.last_price # None }

\* the TRIGGER log of a store whose last alert was fired at 0
PairLog(state) ==
    IF state["NVDA"].last_alert_time = None THEN <<>>
    ELSE << [ticker |-> "NVDA", time |-> 0,
             context |-> [ticker |-> "NVDA", current_price |-> 10500,
                          last_price |-> 10000,
                          recent_news_sentiment |-> "No recent news",
                          news_count |-> 0]] >>

PairInit ==
    /\ \E r \in PairRecords : agent_state = ("NVDA" :> r)
    /\ news_sentiment_chain \in BOOLEAN
    /\ proactive_insight_chain \in BOOLEAN
    /\ proactive_insight_chain => news_sentiment_chain
    /\ clock \in PairClocks
    /\ awaiting_sentiment = EmptyBag
    /\ awaiting_insight = EmptyBag
    /\ alerts = PairLog(agent_state)
    /\ n_valid = Len(agent_state["NVDA"].recent_news_sentiments)
    /\ folded = {agent_state["NVDA"].recent_news_sentiments[i] :
                    i \in 1..Len(agent_state["NVDA"].recent_news_sentiments)}
    /\ last_sentiment = IF agent_state["NVDA"].recent_news_sentiments = <<>> THEN ""
                        ELSE agent_state["NVDA"].recent_news_sentiments[1][2]
    /\ nevents = 0
    /\ nticks = 0
    /\ \E n \in NewsMessages, s \in [ticker : {"NVDA"}, price : PriceInputs] :
          pair = [active |-> TRUE, base |-> agent_state, news |-> n, stock |-> s,
                  news_sent |-> FALSE, stock_sent |-> FALSE, overlap |-> FALSE]

\* both handlers are suspended in their chain calls
BothSuspended == awaiting_sentiment # EmptyBag /\ awaiting_insight # EmptyBag

\* the news event of the pair is delivered
PairNews ==
    /\ pair.active /\ ~pair.news_sent
    /\ NewsHandler(pair.news)
    /\ pair' = [pair EXCEPT !.news_sent = TRUE, !.overlap = @ \/ BothSuspended']
    /\ UNCHANGED <<nevents, nticks>>

\* the price event of the pair is delivered
PairStock ==
    /\ pair.active /\ ~pair.stock_sent
    /\ StockHandler(pair.stock)
    /\ pair' = [pair EXCEPT !.stock_sent = TRUE, !.overlap = @ \/ BothSuspended']
    /\ UNCHANGED <<nevents, nticks>>

PairNext ==
    \/ PairNews
    \/ PairStock
    \/ SentimentReturns
    \/ InsightReturns

SpecPair == PairInit /\ [][PairNext]_vars

(***************************************************************************)
(* SpecWindow: the news handler alone, driven with news whose timestamps   *)
(* are all different, delivered in any order; their analyses end in any    *)
(* order, with any outcome.                                                *)
(***************************************************************************)
\* NewsMessage.timestamp of the news of SpecWindow
WindowStamps == 1..MaxSteps

WindowMessages ==
    [headline : {"NVIDIA announces new chip"}, source : SourceInputs,
     timestamp : WindowStamps]

\* the timestamps of the news being analysed or folded into the window
UsedStamps ==
    {m.timestamp : m \in BagToSet(awaiting_sentiment)} \cup {e[1] : e \in folded}

WindowInit == Init /\ news_sentiment_chain

\* a news message with a timestamp of its own is delivered
WindowNews ==
    /\ nevents < MaxSteps
    /\ \E msg \in WindowMessages :
          /\ msg.timestamp \notin UsedStamps
          /\ NewsHandler(msg)
    /\ nevents' = nevents + 1
    /\ UNCHANGED <<nticks, pair>>

WindowNext ==
    \/ WindowNews
    \/ SentimentReturns

SpecWindow == WindowInit /\ [][WindowNext]_vars

(***************************************************************************)
(* Vocabulary of the properties.  Percentages are compared exactly, on the *)
(* prices in cents.                                                        *)
(***************************************************************************)
AbsInt(x) == IF x < 0 THEN -x ELSE x

Min(a, b) == IF a < b THEN a ELSE b

\* |(current - previous) / previous * 100| >= PRICE_CHANGE_THRESHOLD_PERCENT
MoveAtLeastThreshold(current, previous) ==
    AbsInt(current - previous) * 100 >= PRICE_CHANGE_THRESHOLD_PERCENT * previous

ValidStockMessage(msg) == msg.ticker # "" /\ msg.price > 0

\* this step is handle_stock_message on msg
StockStep(msg) == nevents' = nevents + 1 /\ StockHandler(msg)

\* this step is handle_news_message on msg
NewsStep(msg) == nevents' = nevents + 1 /\ NewsHandler(msg)

\* this step fires a trigger
Fires == Len(alerts') = Len(alerts) + 1

Window(ticker) == agent_state[ticker].recent_news_sentiments

(***************************************************************************)
(* C1: any two alerts fired for the same ticker are more than              *)
(* ALERT_COOLDOWN_SECONDS of clock time apart.                             *)
(***************************************************************************)
C1_AlertsSeparatedByCooldown ==
    \A i, j \in 1..Len(alerts) :
        (i < j /\ alerts[i].ticker = alerts[j].ticker)
            => alerts[j].time - alerts[i].time > ALERT_COOLDOWN_SECONDS

\* a ticker has fired twice
C1_Witness ==
    \E i, j \in 1..Len(alerts) : i < j /\ alerts[i].ticker = alerts[j].ticker

(***************************************************************************)
(* C2: a valid price event on a ticker with a previous price fires iff the *)
(* move is at least 5 percent of the previous price (5 percent exactly     *)
(* included) and no alert was fired in the last 600 seconds.               *)
(***************************************************************************)
C2_FiresIffThresholdAndCooldown ==
    [][\A msg \in StockMessages :
          (/\ ValidStockMessage(msg)
           /\ msg.ticker \in DOMAIN agent_state
           /\ agent_state[msg.ticker].last_price # None
           /\ StockStep(msg))
          => (Fires <=>
                /\ MoveAtLeastThreshold(msg.price,
                                        agent_state[msg.ticker].last_price[1])
                /\ \/ agent_state[msg.ticker].last_alert_time = None
                   \/ clock - agent_state[msg.ticker].last_alert_time[1]
                         > ALERT_COOLDOWN_SECONDS)]_vars

(***************************************************************************)
(* C3: the first valid price event of a ticker, unseen or seeded with no   *)
(* price, fires nothing, requests no insight, leaves last_alert_time None  *)
(* and only records the price.                                             *)
(***************************************************************************)
C3_FirstPriceOnlyRecorded ==
    [][\A msg \in StockMessages :
          (/\ ValidStockMessage(msg)
           /\ \/ msg.ticker \notin DOMAIN agent_state
              \/ agent_state[msg.ticker].last_price = None
           /\ StockStep(msg))
          => /\ ~Fires
             /\ awaiting_insight' = awaiting_insight
             /\ DOMAIN agent_state' = DOMAIN agent_state \cup {msg.ticker}
             /\ agent_state'[msg.ticker] =
                   [last_price |-> Some(msg.price),
                    recent_news_sentiments |->
                       IF msg.ticker \in DOMAIN agent_state
                       THEN Window(msg.ticker) ELSE <<>>,
                    last_alert_time |-> None]
             /\ \A t \in DOMAIN agent_state \ {msg.ticker} :
                   agent_state'[t] = agent_state[t]]_vars

\* both tickers have had their first price, by moves of any size, and nothing fired
C3_Witness ==
    /\ "AAPL" \in DOMAIN agent_state
    /\ agent_state["NVDA"].last_price # None
    /\ nevents = 2
    /\ alerts = <<>>
    /\ awaiting_insight = EmptyBag

(***************************************************************************)
(* C4: a price event handled while the handler of an alert of the same     *)
(* ticker is suspended in its insight call, within the cooldown of that    *)
(* alert, does not fire: the gate was closed before the call was issued.   *)
(***************************************************************************)
\* an alert of the ticker, fired within the cooldown, awaits its insight
InsightPending(ticker) ==
    \E i \in 1..Len(alerts) :
        /\ alerts[i].ticker = ticker
        /\ BagIn(alerts[i].context, awaiting_insight)
        /\ clock - alerts[i].time <= ALERT_COOLDOWN_SECONDS

C4_ConcurrentPriceEventsFireOnce ==
    [][\A msg \in StockMessages :
          (ValidStockMessage(msg) /\ InsightPending(msg.ticker) /\ StockStep(msg))
              => ~Fires]_vars

\* a second move above the threshold was handled during the insight call
\* of the first, and one alert was fired
C4_Witness ==
    /\ Len(alerts) = 1
    /\ BagIn(alerts[1].context, awaiting_insight)
    /\ clock = alerts[1].time
    /\ agent_state[alerts[1].ticker].last_price # Some(alerts[1].context.current_price)
    /\ MoveAtLeastThreshold(agent_state[alerts[1].ticker].last_price[1] + 1,
                            alerts[1].context.current_price)
    /\ MoveAtLeastThreshold(agent_state[alerts[1].ticker].last_price[1] - 1,
                            alerts[1].context.current_price)
    /\ nevents = 3

(***************************************************************************)
(* C5: when the handlers of a news event and of a price event for the same *)
(* ticker, submitted together, have both returned, the store and the       *)
(* context of the alert (if one fired) are those of the news handler run   *)
(* to its end before the price handler, or of the reverse order.           *)
(***************************************************************************)
PairDone ==
    /\ pair.active /\ pair.news_sent /\ pair.stock_sent
    /\ awaiting_sentiment = EmptyBag /\ awaiting_insight = EmptyBag

\* the whole news handler of the pair, run on state st
PairNewsRun(st) ==
    IF pair.news.headline = "" THEN st
    ELSE NewsState(st, pair.news, last_sentiment)

\* the TRIGGER log after the price handler of the pair returned r
PairLogAfter(r) ==
    IF r.fired
    THEN Append(PairLog(pair.base),
                [ticker |-> pair.stock.ticker, time |-> clock, context |-> r.context])
    ELSE PairLog(pair.base)

C5_PairEqualsSequentialOrder ==
    PairDone =>
        LET newsFirst  == StockResult(PairNewsRun(pair.base), pair.stock, clock)
            stockFirst == StockResult(pair.base, pair.stock, clock)
        IN  \/ agent_state = newsFirst.state /\ alerts = PairLogAfter(newsFirst)
            \/ /\ agent_state = PairNewsRun(stockFirst.state)
               /\ alerts = PairLogAfter(stockFirst)

\* both handlers were suspended at once, the price event fired, and the
\* news was folded into a window that held entries
C5_Witness ==
    /\ PairDone
    /\ pair.overlap
    /\ Len(alerts) = Len(PairLog(pair.base)) + 1
    /\ pair.base["NVDA"].recent_news_sentiments # <<>>
    /\ Window("NVDA") # pair.base["NVDA"].recent_news_sentiments

(***************************************************************************)
(* C6: in every state every ticker's window holds at most                  *)
(* MAX_NEWS_HISTORY entries.                                               *)
(***************************************************************************)
C6_WindowBounded ==
    \A t \in DOMAIN agent_state : Len(Window(t)) <= MAX_NEWS_HISTORY

\* a full window into which one more classified news was folded
C6_Witness ==
    /\ Len(Window("NVDA")) = MAX_NEWS_HISTORY
    /\ n_valid = MAX_NEWS_HISTORY + 1

(***************************************************************************)
(* C7: the window of the target ticker holds min(N_valid, 3) entries,      *)
(* where N_valid counts the news analysed as POSITIVE, NEGATIVE or         *)
(* NEUTRAL, with or without price events before them.                      *)
(***************************************************************************)
C7_WindowLengthIsMinValid3 ==
    Len(Window("NVDA")) = Min(n_valid, MAX_NEWS_HISTORY)

\* classified news folded in after a price event and after a failed analysis
C7_Witness ==
    /\ n_valid = 2
    /\ Len(Window("NVDA")) = 2
    /\ agent_state["NVDA"].last_price # None
    /\ nevents = 4
    /\ last_sentiment = "NEUTRAL"
    /\ awaiting_sentiment = EmptyBag

(***************************************************************************)
(* C8: in every state the entries of every window are in descending order  *)
(* of timestamp, equal timestamps allowed.                                 *)
(***************************************************************************)
C8_WindowDescending ==
    \A t \in DOMAIN agent_state :
        \A i \in 1..(Len(Window(t)) - 1) : Window(t)[i][1] >= Window(t)[i + 1][1]

\* the news folded in last carries the older timestamp
C8_Witness ==
    /\ n_valid = 2
    /\ Window("NVDA") = << <<2, "NEGATIVE">>, <<1, "POSITIVE">> >>
    /\ last_sentiment = "POSITIVE"

(***************************************************************************)
(* C9: a news event analysed as UNKNOWN or as an error changes no record,  *)
(* only POSITIVE, NEGATIVE and NEUTRAL appear in a window, and the handler *)
(* of the failed event leaves nothing pending.                             *)
(***************************************************************************)
FailedSentiment(sentiment) ==
    sentiment \in {"UNKNOWN", "ERROR_API_CALL", "ERROR_LLM_UNAVAILABLE"}

OnlyValidLabels ==
    \A t \in DOMAIN agent_state :
        \A i \in 1..Len(Window(t)) :
            Window(t)[i][2] \in {"POSITIVE", "NEGATIVE", "NEUTRAL"}

\* this step ends the analysis of a news event with a failure
FailedAnalysisStep ==
    /\ last_sentiment' # last_sentiment \/ awaiting_sentiment' # awaiting_sentiment
       \/ nevents' # nevents
    /\ FailedSentiment(last_sentiment')
    /\ \/ \E msg \in BagToSet(awaiting_sentiment), outcome \in ChainOutcomes :
             NewsResume(msg, outcome) /\ nevents' = nevents
       \/ \E msg \in NewsMessages :
             NewsStep(msg) /\ msg.headline # "" /\ ~news_sentiment_chain

C9_FailedAnalysisChangesNothing ==
    /\ []OnlyValidLabels
    /\ [][FailedAnalysisStep =>
            /\ agent_state' = agent_state
            /\ alerts' = alerts
            /\ awaiting_insight' = awaiting_insight
            /\ BagCardinality(awaiting_sentiment') <= BagCardinality(awaiting_sentiment)]_vars

\* an analysis has just failed on a record that holds an entry, a price
\* and an alert
C9_Witness ==
    /\ last_sentiment = "UNKNOWN"
    /\ n_valid = 1
    /\ Len(Window("NVDA")) = 1
    /\ Len(alerts) = 1
    /\ awaiting_sentiment = EmptyBag

(***************************************************************************)
(* C10: an invalid event changes nothing: a price event with an empty      *)
(* ticker or a price <= 0 creates no record, changes no field and fires    *)
(* nothing; a news event with an empty headline changes nothing and        *)
(* issues no classifier call.                                              *)
(***************************************************************************)
C10_InvalidEventChangesNothing ==
    [][/\ \A msg \in StockMessages :
             (~ValidStockMessage(msg) /\ StockStep(msg))
                 => UNCHANGED <<agent_state, alerts, awaiting_insight,
                                awaiting_sentiment, last_sentiment, n_valid,
                                folded>>
       /\ \A msg \in NewsMessages :
             (msg.headline = "" /\ NewsStep(msg))
                 => UNCHANGED <<agent_state, alerts, awaiting_insight,
                                awaiting_sentiment, last_sentiment, n_valid,
                                folded>>]_vars

\* every event delivered so far was invalid, and the store is as imported
C10_Witness ==
    /\ nevents = 2
    /\ agent_state = InitialState
    /\ awaiting_sentiment = EmptyBag
    /\ last_sentiment = ""

(***************************************************************************)
(* C11: the return of an insight call, with a response or an exception,    *)
(* changes no record; after a trigger, with or without an insight chain,   *)
(* last_alert_time is the time of the ticker's latest alert, so that no    *)
(* price event within 600 seconds of it fires; and only a price event      *)
(* changes a last_price.                                                   *)
(***************************************************************************)
\* this step is the return of an insight call
InsightStep ==
    /\ awaiting_insight' # awaiting_insight
    /\ BagCardinality(awaiting_insight') < BagCardinality(awaiting_insight)

\* the index of the latest alert of the ticker, 0 if it has none
LatestAlert(ticker) ==
    LET of == {i \in 1..Len(alerts) : alerts[i].ticker = ticker}
    IN  IF of = {} THEN 0 ELSE CHOOSE i \in of : \A j \in of : j <= i

GateFollowsLatestAlert ==
    \A t \in DOMAIN agent_state :
        agent_state[t].last_alert_time =
            IF LatestAlert(t) = 0 THEN None ELSE Some(alerts[LatestAlert(t)].time)

C11_InsightOutcomeChangesNothing ==
    /\ []GateFollowsLatestAlert
    /\ [][/\ InsightStep => (agent_state' = agent_state /\ alerts' = alerts)
          /\ \A msg \in StockMessages :
                (/\ ValidStockMessage(msg)
                 /\ msg.ticker \in DOMAIN agent_state
                 /\ agent_state[msg.ticker].last_alert_time # None
                 /\ clock - agent_state[msg.ticker].last_alert_time[1]
                       <= ALERT_COOLDOWN_SECONDS
                 /\ StockStep(msg))
                => ~Fires
          /\ nevents' = nevents =>
                \A t \in DOMAIN agent_state :
                    agent_state'[t].last_price = agent_state[t].last_price]_vars

\* the insight call of an alert has returned, the clock has advanced within
\* the cooldown, and a later move above the threshold has been refused
C11_Witness ==
    /\ Len(alerts) = 1
    /\ proactive_insight_chain
    /\ awaiting_insight = EmptyBag
    /\ clock > alerts[1].time
    /\ clock - alerts[1].time <= ALERT_COOLDOWN_SECONDS
    /\ nevents = 3
    /\ agent_state[alerts[1].ticker].last_alert_time = Some(alerts[1].time)
    /\ agent_state[alerts[1].ticker].last_price # Some(alerts[1].context.current_price)
    /\ MoveAtLeastThreshold(agent_state[alerts[1].ticker].last_price[1] + 1,
                            alerts[1].context.current_price)
    /\ MoveAtLeastThreshold(agent_state[alerts[1].ticker].last_price[1] - 1,
                            alerts[1].context.current_price)

(***************************************************************************)
(* C12: every handler suspended in a classifier call or in an insight call *)
(* eventually completes, whether or not the service ever responds.         *)
(***************************************************************************)
C12_EveryHandlerCompletes ==
    /\ (awaiting_sentiment # EmptyBag) ~> (awaiting_sentiment = EmptyBag)
    /\ (awaiting_insight # EmptyBag) ~> (awaiting_insight = EmptyBag)

(***************************************************************************)
(* C13, as stated: the first valid price event of every ticker finds no    *)
(* record of it in the store and creates one with that price, an empty     *)
(* window and no alert time.                                               *)
(***************************************************************************)
\* the record a first price event creates
CreatedRecord(price) ==
    [last_price |-> Some(price), recent_news_sentiments |-> <<>>,
     last_alert_time |-> None]

C13_RecordCreatedByFirstPrice ==
    [][\A msg \in StockMessages :
          (/\ ValidStockMessage(msg)
           /\ \/ msg.ticker \notin DOMAIN agent_state
              \/ agent_state[msg.ticker].last_price = None
           /\ StockStep(msg))
          => /\ msg.ticker \notin DOMAIN agent_state
             /\ agent_state'[msg.ticker] = CreatedRecord(msg.price)]_vars

(***************************************************************************)
(* C13, amended: the record of NVDA is in the store from the start, with   *)
(* no price, an empty window and no alert time, and its first valid price  *)
(* event only sets last_price; the record of any other ticker is created   *)
(* by the first valid price event of that ticker and not before, with that *)
(* price, an empty window and no alert time.                               *)
(***************************************************************************)
OnlySeededBeforePrice ==
    /\ "NVDA" \in DOMAIN agent_state
    /\ \A t \in DOMAIN agent_state \ {"NVDA"} : agent_state[t].last_price # None
    /\ nevents = 0 =>
          /\ DOMAIN agent_state = {"NVDA"}
          /\ agent_state["NVDA"] = [last_price |-> None,
                                    recent_news_sentiments |-> <<>>,
                                    last_alert_time |-> None]

C13_RecordsLazyExceptSeeded ==
    /\ []OnlySeededBeforePrice
    /\ [][/\ \A t \in DOMAIN agent_state' \ DOMAIN agent_state :
                \E msg \in StockMessages :
                    /\ msg.ticker = t
                    /\ ValidStockMessage(msg)
                    /\ StockStep(msg)
                    /\ agent_state'[t] = CreatedRecord(msg.price)
          /\ \A msg \in StockMessages :
                (nevents' # nevents /\ ValidStockMessage(msg) /\ StockStep(msg)) =>
                    IF msg.ticker \notin DOMAIN agent_state
                    THEN agent_state'[msg.ticker] = CreatedRecord(msg.price)
                    ELSE agent_state[msg.ticker].last_price = None =>
                            agent_state'[msg.ticker] =
                                [agent_state[msg.ticker] EXCEPT
                                    !.last_price = Some(msg.price)]]_vars

\* a ticker's record was created by its first price while the seeded record
\* holds news and still no price
C13_Witness ==
    /\ "AAPL" \in DOMAIN agent_state
    /\ agent_state["AAPL"] = CreatedRecord(10500)
    /\ agent_state["NVDA"].last_price = None
    /\ Window("NVDA") # <<>>

(***************************************************************************)
(* C14: no step removes a ticker from the store or replaces its record by  *)
(* a fresh one: a last_price or a last_alert_time that is set is never     *)
(* None again, and a window that holds entries is never empty again.       *)
(***************************************************************************)
C14_RecordsNeverReset ==
    [][/\ DOMAIN agent_state \subseteq DOMAIN agent_state'
       /\ \A t \in DOMAIN agent_state :
            /\ agent_state[t].last_price # None
                  => agent_state'[t].last_price # None
            /\ agent_state[t].last_alert_time # None
                  => agent_state'[t].last_alert_time # None
            /\ agent_state[t].recent_news_sentiments # <<>>
                  => agent_state'[t].recent_news_sentiments # <<>>]_vars

\* a record with a price, an alert time and news has seen a later price
\* event, and a second ticker has been added to the store
C14_Witness ==
    /\ DOMAIN agent_state = {"NVDA", "AAPL"}
    /\ Len(alerts) = 1
    /\ alerts[1].ticker = "NVDA"
    /\ agent_state["NVDA"].last_alert_time = Some(alerts[1].time)
    /\ Window("NVDA") # <<>>
    /\ nevents = 4

(***************************************************************************)
(* C15: a ticker's last_alert_time changes only in a step in which a price *)
(* event of that ticker fires; that step sets it to the clock of the step; *)
(* it never decreases and is never None again once set.  The clock read by *)
(* successive handlers does not go backwards.                              *)
(***************************************************************************)
\* this step fires a trigger for the ticker
FiresFor(ticker) == Fires /\ alerts'[Len(alerts')].ticker = ticker

C15_AlertTimeMonotone ==
    [][/\ \A t \in DOMAIN agent_state :
            /\ FiresFor(t) => agent_state'[t].last_alert_time = Some(clock)
            /\ agent_state'[t].last_alert_time # agent_state[t].last_alert_time
                  => /\ FiresFor(t)
                     /\ \E msg \in StockMessages : msg.ticker = t /\ StockStep(msg)
                     /\ agent_state'[t].last_alert_time = Some(clock)
                     /\ agent_state[t].last_alert_time # None
                           => agent_state[t].last_alert_time[1] < clock
       /\ \A t \in DOMAIN agent_state' \ DOMAIN agent_state :
            agent_state'[t].last_alert_time = None]_vars

\* a ticker has fired twice and its last_alert_time has moved forward
C15_Witness ==
    \E t \in DOMAIN agent_state :
        /\ LatestAlert(t) = 2
        /\ alerts[1].ticker = t
        /\ alerts[1].time < alerts[2].time
        /\ agent_state[t].last_alert_time = Some(alerts[2].time)

(***************************************************************************)
(* C16: every valid price event leaves its price in the ticker's           *)
(* last_price, fired or not; no other step changes a last_price; so the    *)
(* previous price an event is compared with, the one its alert reports, is *)
(* the price of the valid event of the ticker handled just before it,      *)
(* whether or not earlier handlers are still suspended in an insight call. *)
(***************************************************************************)
C16_NoPriceUpdateLost ==
    [][/\ \A msg \in StockMessages :
            (nevents' # nevents /\ ValidStockMessage(msg) /\ StockStep(msg))
            => /\ agent_state'[msg.ticker].last_price = Some(msg.price)
               /\ \A t \in DOMAIN agent_state \ {msg.ticker} :
                     agent_state'[t].last_price = agent_state[t].last_price
               /\ Fires =>
                     /\ alerts'[Len(alerts')].ticker = msg.ticker
                     /\ alerts'[Len(alerts')].context.current_price = msg.price
                     /\ agent_state[msg.ticker].last_price =
                           Some(alerts'[Len(alerts')].context.last_price)
       /\ (\/ nevents' = nevents
           \/ ~\E msg \in StockMessages : ValidStockMessage(msg) /\ StockStep(msg))
            => /\ DOMAIN agent_state' = DOMAIN agent_state
               /\ \A t \in DOMAIN agent_state :
                     agent_state'[t].last_price = agent_state[t].last_price]_vars

\* a second alert fired from the price of the first while the handler of
\* the first is still suspended in its insight call
C16_Witness ==
    /\ Len(alerts) = 2
    /\ alerts[1].ticker = alerts[2].ticker
    /\ alerts[2].context.last_price = alerts[1].context.current_price
    /\ BagIn(alerts[1].context, awaiting_insight)
    /\ BagIn(alerts[2].context, awaiting_insight)
    /\ agent_state[alerts[2].ticker].last_price = Some(alerts[2].context.current_price)

(***************************************************************************)
(* C17: when the news analysed as POSITIVE, NEGATIVE or NEUTRAL have       *)
(* timestamps that are all different, the window of NVDA is, in every      *)
(* state, the (up to) 3 of them with the greatest timestamps, newest       *)
(* first, whatever the order of their arrival and of the ends of their     *)
(* analyses; news older than a full window leave it as it is.              *)
(***************************************************************************)
\* w lists, newest first, the (up to) MAX_NEWS_HISTORY entries of S with the
\* greatest timestamps
IsNewestOf(w, S) ==
    /\ Len(w) = Min(Cardinality(S), MAX_NEWS_HISTORY)
    /\ \A i \in 1..Len(w) : w[i] \in S
    /\ \A i \in 1..(Len(w) - 1) : w[i][1] > w[i + 1][1]
    /\ \A e \in S :
          \/ \E i \in 1..Len(w) : w[i] = e
          \/ Len(w) = MAX_NEWS_HISTORY /\ e[1] < w[Len(w)][1]

C17_WindowIsNewestThree ==
    /\ IsNewestOf(Window("NVDA"), folded)
    /\ \A e1, e2 \in folded : e1[1] = e2[1] => e1 = e2

\* the news folded in last is older than every entry of the full window
C17_Witness ==
    /\ Cardinality(folded) = MAX_NEWS_HISTORY + 1
    /\ awaiting_sentiment = EmptyBag
    /\ \E e \in folded :
          /\ e[2] = last_sentiment
          /\ \A i \in 1..Len(Window("NVDA")) :
                /\ Window("NVDA")[i][2] # last_sentiment
                /\ Window("NVDA")[i][1] > e[1]

(***************************************************************************)
(* C18: the context of a fired trigger is taken from the ticker's window   *)
(* as it is in the firing step: news_count is its length, the summary its  *)
(* labels, newest first, joined by ", ", and "No recent news" with count 0 *)
(* for an empty window; no later step changes the context of an alert or   *)
(* of a pending insight call.                                              *)
(***************************************************************************)
\* the summary of a window, written out for each length
SummaryOf(w) ==
    CASE Len(w) = 0 -> "No recent news"
      [] Len(w) = 1 -> w[1][2]
      [] Len(w) = 2 -> w[1][2] \o ", " \o w[2][2]
      [] OTHER      -> w[1][2] \o ", " \o w[2][2] \o ", " \o w[3][2]

C18_ContextIsSnapshot ==
    [][/\ \A i \in 1..Len(alerts) : alerts'[i] = alerts[i]
       /\ \A t \in DOMAIN agent_state :
            FiresFor(t) =>
               LET context == alerts'[Len(alerts')].context
               IN  /\ context.news_count = Len(Window(t))
                   /\ context.news_count \in 0..MAX_NEWS_HISTORY
                   /\ context.recent_news_sentiment = SummaryOf(Window(t))
                   /\ proactive_insight_chain =>
                         awaiting_insight' = awaiting_insight (+) SetToBag({context})
       /\ (~\E t \in DOMAIN agent_state : FiresFor(t)) =>
            \A c \in BagToSet(awaiting_insight') :
                CopiesIn(c, awaiting_insight') <= CopiesIn(c, awaiting_insight)]_vars

\* an alert took its context from a full window, and a news event folded in
\* while its insight call is pending has changed the window since
C18_Witness ==
    /\ pair.active
    /\ Len(alerts) = Len(PairLog(pair.base)) + 1
    /\ alerts[Len(alerts)].context.news_count = MAX_NEWS_HISTORY
    /\ BagIn(alerts[Len(alerts)].context, awaiting_insight)
    /\ alerts[Len(alerts)].context.recent_news_sentiment =
          SummaryOf(pair.base["NVDA"].recent_news_sentiments)
    /\ SummaryOf(Window("NVDA")) # alerts[Len(alerts)].context.recent_news_sentiment

(***************************************************************************)
(* C19: a step of the news handler changes no last_price and no            *)
(* last_alert_time, fires no trigger and requests no insight; a step of    *)
(* the price handler changes no window; an insight request is issued only  *)
(* by a step in which a price event fires, one request for that trigger.   *)
(***************************************************************************)
\* this step is a step of handle_news_message: its start or its resumption
NewsHandlerStep ==
    \/ \E msg \in NewsMessages : NewsStep(msg)
    \/ awaiting_sentiment' # awaiting_sentiment
    \/ last_sentiment' # last_sentiment
    \/ n_valid' # n_valid

\* this step is a step of handle_stock_message
StockHandlerStep == \E msg \in StockMessages : StockStep(msg)

C19_HandlersWriteDisjointFields ==
    [][/\ NewsHandlerStep =>
            /\ DOMAIN agent_state' = DOMAIN agent_state
            /\ \A t \in DOMAIN agent_state :
                  /\ agent_state'[t].last_price = agent_state[t].last_price
                  /\ agent_state'[t].last_alert_time = agent_state[t].last_alert_time
            /\ alerts' = alerts
            /\ awaiting_insight' = awaiting_insight
       /\ StockHandlerStep =>
            /\ \A t \in DOMAIN agent_state : Window(t)' = Window(t)
            /\ UNCHANGED <<awaiting_sentiment, last_sentiment, n_valid, folded>>
       /\ BagCardinality(awaiting_insight') > BagCardinality(awaiting_insight) =>
            /\ StockHandlerStep
            /\ Fires
            /\ awaiting_insight' =
                  awaiting_insight (+) SetToBag({alerts'[Len(alerts')].context})
       /\ Fires => BagCardinality(awaiting_insight')
                      <= BagCardinality(awaiting_insight) + 1]_vars

\* news was folded into the record of a ticker that has fired, and a price
\* event was handled on a record that holds news
C19_Witness ==
    /\ Len(alerts) = 1
    /\ BagCardinality(awaiting_insight) = 1
    /\ alerts[1].context.news_count = 1
    /\ n_valid = 2
    /\ Len(Window("NVDA")) = 2
    /\ agent_state["NVDA"].last_alert_time = Some(alerts[1].time)
    /\ agent_state["NVDA"].last_price = Some(alerts[1].context.current_price)

(***************************************************************************)
(* C20: every news analysed as POSITIVE, NEGATIVE or NEUTRAL is folded     *)
(* into the window of NVDA, whatever its headline and source; the window   *)
(* of every other ticker is empty in every state, and every alert of       *)
(* another ticker reports "No recent news" and a count of 0.               *)
(***************************************************************************)
OtherWindowsEmpty ==
    /\ \A t \in DOMAIN agent_state \ {"NVDA"} : Window(t) = <<>>
    /\ \A i \in 1..Len(alerts) :
          alerts[i].ticker # "NVDA" =>
             /\ alerts[i].context.recent_news_sentiment = "No recent news"
             /\ alerts[i].context.news_count = 0

\* the entry is in the window, or the window was full of entries at least as
\* new and has stayed as it was
FoldedInto(entry, before, after) ==
    \/ /\ \E i \in 1..Len(after) : after[i] = entry
       /\ after # before
    \/ /\ Len(before) = MAX_NEWS_HISTORY
       /\ entry[1] <= before[MAX_NEWS_HISTORY][1]
       /\ after = before

C20_NewsGoToTargetTicker ==
    /\ []OtherWindowsEmpty
    /\ [][n_valid' = n_valid + 1 =>
            \E msg \in BagToSet(awaiting_sentiment) :
                /\ awaiting_sentiment' = awaiting_sentiment (-) SetToBag({msg})
                /\ FoldedInto(<<msg.timestamp, last_sentiment'>>,
                              Window("NVDA"), Window("NVDA")')]_vars

\* another ticker has fired with no news while the news about it is in the
\* window of NVDA
C20_Witness ==
    /\ \E i \in 1..Len(alerts) : alerts[i].ticker = "AAPL"
    /\ \E i \in 1..Len(Window("NVDA")) :
          Window("NVDA")[i][1] = OtherNews.timestamp
    /\ Window("AAPL") = <<>>

(***************************************************************************)
(* C21: a price event of one ticker leaves the record of every other       *)
(* ticker as it is, and whether it fires depends on its own record only:   *)
(* it fires only on a move of at least 5 percent from its own last price   *)
(* with its own gate open, and a move of more than 5 percent with its own  *)
(* gate open fires whatever the alerts and gates of the other tickers.     *)
(***************************************************************************)
\* |(current - previous) / previous * 100| > PRICE_CHANGE_THRESHOLD_PERCENT
MoveAboveThreshold(current, previous) ==
    AbsInt(current - previous) * 100 > PRICE_CHANGE_THRESHOLD_PERCENT * previous

\* the ticker's own cooldown gate is open
OwnGateOpen(ticker) ==
    \/ agent_state[ticker].last_alert_time = None
    \/ clock - agent_state[ticker].last_alert_time[1] > ALERT_COOLDOWN_SECONDS

C21_TickersIndependent ==
    [][\A msg \in StockMessages :
          (nevents' # nevents /\ ValidStockMessage(msg) /\ StockStep(msg))
          => /\ \A t \in DOMAIN agent_state \ {msg.ticker} :
                   agent_state'[t] = agent_state[t]
             /\ Fires =>
                   /\ alerts'[Len(alerts')].ticker = msg.ticker
                   /\ msg.ticker \in DOMAIN agent_state
                   /\ agent_state[msg.ticker].last_price # None
                   /\ MoveAtLeastThreshold(msg.price,
                                           agent_state[msg.ticker].last_price[1])
                   /\ OwnGateOpen(msg.ticker)
             /\ (/\ msg.ticker \in DOMAIN agent_state
                 /\ agent_state[msg.ticker].last_price # None
                 /\ MoveAboveThreshold(msg.price,
                                       agent_state[msg.ticker].last_price[1])
                 /\ OwnGateOpen(msg.ticker))
                => Fires]_vars

\* a ticker has fired while the gate of another ticker was closed, and the
\* record of that other ticker is as its own alert left it
C21_Witness ==
    /\ Len(alerts) = 2
    /\ alerts[1].ticker # alerts[2].ticker
    /\ alerts[2].time - alerts[1].time <= ALERT_COOLDOWN_SECONDS
    /\ agent_state[alerts[1].ticker] =
          [last_price |-> Some(alerts[1].context.current_price),
           recent_news_sentiments |-> <<>>,
           last_alert_time |-> Some(alerts[1].time)]
    /\ agent_state[alerts[2].ticker].last_alert_time = Some(alerts[2].time)

====
